---- MODULE Spec2Model ----
(***************************************************************************)
(* Model of codemd's CodeScanner (src/src/codemd/scanner.py): the ignore   *)
(* matcher built by load_gitignore, the filter should_include_file, the    *)
(* tree walker generate_structure and the content walker scan_directory.   *)
(*                                                                         *)
(* Strings are sequences of one-character strings, so that suffixes,       *)
(* substrings, globbing and ordering are computed character by character.  *)
(* A path is the sequence of its parts, as pathlib's Path.parts; an        *)
(* absolute path starts with the part "/".                                 *)
(***************************************************************************)
EXTENDS Integers, Sequences, FiniteSets, TLC

VARIABLES
    extensions,          \* self.extensions
    exclude_patterns,    \* self.exclude_patterns
    exclude_extensions,  \* self.exclude_extensions
    no_structure,        \* self.no_structure
    gitspec,             \* self.gitspec: None or the compiled pattern list
    base_dir,            \* self.base_dir: None or the resolved scan root
    fs,                  \* the directory tree on disk: the entries below /r
    unlistable,          \* directories whose listing raises PermissionError
    call,                \* the last call made on the scanner and its outcome
    lines                \* the lines read by load_gitignore (kept for reference)

vars == <<extensions, exclude_patterns, exclude_extensions, no_structure,
          gitspec, base_dir, fs, unlistable, call, lines>>

\* Python's None, for the two optional fields: a path has at least one part
\* and a PathSpec is held as <<patterns>>, so neither is ever the empty tuple.
None == <<>>

(***************************************************************************)
(* Characters and strings.                                                 *)
(***************************************************************************)
\* The characters used, in ASCII order (Python compares str by code point).
ASCII == <<"!", "#", "*", "-", ".", "/", "?", "\\", "_",
           "a", "b", "c", "d", "e", "h", "i", "j", "m", "n", "p", "r", "s",
           "t", "v", "x", "y">>

Ord(c) == CHOOSE i \in 1..Len(ASCII) : ASCII[i] = c

\* s < t for two str values
RECURSIVE StrLess(_, _)
StrLess(s, t) ==
    IF t = <<>> THEN FALSE
    ELSE IF s = <<>> THEN TRUE
    ELSE IF Head(s) = Head(t) THEN StrLess(Tail(s), Tail(t))
    ELSE Ord(Head(s)) < Ord(Head(t))

\* sep.join(parts)
RECURSIVE Join(_, _)
Join(parts, sep) ==
    IF parts = <<>> THEN <<>>
    ELSE IF Len(parts) = 1 THEN parts[1]
    ELSE parts[1] \o sep \o Join(Tail(parts), sep)

\* s.split(c) for a one-character separator c
RECURSIVE Split(_, _)
Split(s, c) ==
    IF \A i \in 1..Len(s) : s[i] # c THEN <<s>>
    ELSE LET k == CHOOSE i \in 1..Len(s) :
                      s[i] = c /\ \A j \in 1..(i - 1) : s[j] # c
         IN  <<SubSeq(s, 1, k - 1)>> \o Split(SubSeq(s, k + 1, Len(s)), c)

\* s.startswith(p), s.endswith(e), p in s
StartsWith(s, p) == Len(p) <= Len(s) /\ SubSeq(s, 1, Len(p)) = p
EndsWith(s, e) == Len(e) <= Len(s) /\ SubSeq(s, Len(s) - Len(e) + 1, Len(s)) = e
Contains(s, p) == \E i \in 0..(Len(s) - Len(p)) : SubSeq(s, i + 1, i + Len(p)) = p

\* s.lstrip('.')
RECURSIVE LStripDot(_)
LStripDot(s) == IF s # <<>> /\ Head(s) = "." THEN LStripDot(Tail(s)) ELSE s

(***************************************************************************)
(* pathlib.                                                                *)
(***************************************************************************)
Slash == <<"/">>
IsAbsolute(p) == p # <<>> /\ p[1] = Slash

\* str(path)
Str(p) ==
    IF IsAbsolute(p) THEN Slash \o Join(Tail(p), Slash) ELSE Join(p, Slash)

\* path.name
Name(p) == IF p = <<>> \/ p = <<Slash>> THEN <<>> ELSE p[Len(p)]

\* path.suffix: from the last dot of the name, when that dot is neither the
\* first nor the last character of the name; otherwise empty.
Suffix(p) ==
    LET name == Name(p)
        dots == {i \in 1..Len(name) : name[i] = "."}
    IN  IF dots = {} THEN <<>>
        ELSE LET i == CHOOSE d \in dots : \A e \in dots : e <= d
             IN  IF 1 < i /\ i < Len(name)
                 THEN SubSeq(name, i, Len(name))
                 ELSE <<>>

\* The working directory of the process is "/": a relative path resolves
\* to the same parts below the root part.
Resolve(p) == IF IsAbsolute(p) THEN p ELSE <<Slash>> \o p

\* path.relative_to(base) succeeds when base's parts are a prefix of path's
IsRelativeTo(p, base) == Len(base) <= Len(p) /\ SubSeq(p, 1, Len(base)) = base
RelativeTo(p, base) == SubSeq(p, Len(base) + 1, Len(p))

\* Path.__lt__: the parts are compared as a list, part by part
RECURSIVE PathLess(_, _)
PathLess(p, q) ==
    IF q = <<>> THEN FALSE
    ELSE IF p = <<>> THEN TRUE
    ELSE IF Head(p) = Head(q) THEN PathLess(Tail(p), Tail(q))
    ELSE StrLess(Head(p), Head(q))

(***************************************************************************)
(* The ignore matcher: pathspec's PathSpec over 'gitwildmatch' patterns,   *)
(* as load_gitignore builds it and should_include_file and                 *)
(* generate_structure query it.  A compiled pattern is a record            *)
(* [include, segs]: segs are the normalised pattern segments the regular   *)
(* expression is built from, empty for a line that yields no pattern       *)
(* (regex and include None); include is TRUE for an exclusion line and     *)
(* FALSE for a negation line.                                              *)
(***************************************************************************)
DoubleStar == <<"*", "*">>
OneStar == <<"*">>

\* GitWildMatchPattern.pattern_to_regex: one line to one compiled pattern
pattern_to_regex(line) ==
    IF line = <<>> \/ Head(line) = "#" \/ line = Slash
    THEN [include |-> FALSE, segs |-> <<>>]
    ELSE LET negated == Head(line) = "!"
             pattern == IF negated THEN Tail(line) ELSE line
             segs0 == Split(pattern, "/")
             \* a leading slash anchors the pattern; a pattern of one
             \* segment (with or without a trailing slash) matches at any depth
             segs1 == IF segs0[1] = <<>> THEN Tail(segs0)
                      ELSE IF Len(segs0) = 1 \/ (Len(segs0) = 2 /\ segs0[2] = <<>>)
                           THEN IF segs0[1] # DoubleStar
                                THEN <<DoubleStar>> \o segs0 ELSE segs0
                           ELSE segs0
             \* a trailing slash: everything below the directory
             segs2 == IF Len(segs1) > 1 /\ segs1[Len(segs1)] = <<>>
                      THEN [segs1 EXCEPT ![Len(segs1)] = DoubleStar]
                      ELSE segs1
         IN  [include |-> ~negated, segs |-> segs2]

\* PathSpec.from_lines('gitwildmatch', lines)
from_lines(ls) == <<[i \in 1..Len(ls) |-> pattern_to_regex(ls[i])]>>

\* translate_segment_glob: '*' is any run of characters of one segment,
\* '?' is one character, any other character stands for itself
RECURSIVE GlobMatch(_, _)
GlobMatch(pat, s) ==
    IF pat = <<>> THEN s = <<>>
    ELSE IF Head(pat) = "*"
         THEN GlobMatch(Tail(pat), s) \/ (s # <<>> /\ GlobMatch(pat, Tail(s)))
    ELSE IF Head(pat) = "?"
         THEN s # <<>> /\ GlobMatch(Tail(pat), Tail(s))
    ELSE s # <<>> /\ Head(s) = Head(pat) /\ GlobMatch(Tail(pat), Tail(s))

\* The regular expression of a pattern, applied to the segments f of a file
\* string from pattern segment k on.
RECURSIVE SegsMatch(_, _, _)
SegsMatch(segs, k, f) ==
    LET n == Len(segs)
        seg == segs[k]
        \* a run of j whole segments that is not the empty string
        Run(j) == j = 0 \/ Join(SubSeq(f, 1, j), Slash) # <<>>
    IN  IF seg = DoubleStar
        THEN IF k = 1 /\ k = n THEN Join(f, Slash) # <<>>          \* .+
             ELSE IF k = 1                                          \* (?:.+/)?
                  THEN \E j \in 0..Len(f) :
                          Run(j) /\ SegsMatch(segs, k + 1, SubSeq(f, j + 1, Len(f)))
             ELSE IF k = n THEN Len(f) >= 1                         \* /.*
             ELSE \E j \in 0..Len(f) :                              \* (?:/.+)?
                     Run(j) /\ SegsMatch(segs, k + 1, SubSeq(f, j + 1, Len(f)))
        ELSE /\ f # <<>>
             /\ IF seg = OneStar THEN Head(f) # <<>>                \* [^/]+
                ELSE GlobMatch(seg, Head(f))
             /\ (k = n \/ SegsMatch(segs, k + 1, Tail(f)))          \* (?:/.*)?$

\* pathspec.util.normalize_file
normalize_file(file) ==
    IF StartsWith(file, Slash) THEN Tail(file)
    ELSE IF StartsWith(file, <<".", "/">>) THEN SubSeq(file, 3, Len(file))
    ELSE file

\* GitWildMatchPattern.match_file on a normalised file string
PatternMatches(pattern, file) ==
    pattern.segs # <<>> /\ SegsMatch(pattern.segs, 1, Split(file, "/"))

\* A matcher in which the first matching pattern decides
RECURSIVE check_match_file_first(_, _, _)
check_match_file_first(patterns, file, out_include) ==
    IF patterns = <<>> THEN out_include
    ELSE IF PatternMatches(Head(patterns), file) THEN Head(patterns).include
    ELSE check_match_file_first(Tail(patterns), file, out_include)

\* The loop of PathSpec.match_file: every matching pattern overwrites the
\* verdict of the patterns before it.
RECURSIVE check_match_file(_, _, _)
check_match_file(patterns, file, out_include) ==
    IF patterns = <<>> THEN out_include
    ELSE check_match_file(Tail(patterns), file,
                          IF PatternMatches(Head(patterns), file)
                          THEN Head(patterns).include
                          ELSE out_include)

\* PathSpec.match_file(file): TRUE when the file is ignored
match_file(spec, file) == check_match_file(spec[1], normalize_file(file), FALSE)

(***************************************************************************)
(* The scanner object.                                                     *)
(***************************************************************************)
\* self, as the methods read it
Self == [extensions |-> extensions, exclude_patterns |-> exclude_patterns,
         exclude_extensions |-> exclude_extensions, no_structure |-> no_structure,
         gitspec |-> gitspec, base_dir |-> base_dir]

(***************************************************************************)
(* CodeScanner.should_include_file                                         *)
(***************************************************************************)
\* The string the matcher is asked about: the path relative to base_dir,
\* or the path as given when relative_to raises ValueError.
MatchKey(self, path) ==
    IF IsRelativeTo(path, self.base_dir) THEN Str(RelativeTo(path, self.base_dir))
    ELSE Str(path)

\* A filter that forgets the exclude_patterns loop
should_include_file_no_patterns(self, file_path) ==
    IF /\ self.gitspec # None
       /\ self.base_dir # None
       /\ match_file(self.gitspec, MatchKey(self, file_path))
    THEN FALSE
    ELSE IF LStripDot(Suffix(file_path)) \notin self.extensions THEN FALSE
    ELSE IF \E ext_pattern \in self.exclude_extensions :
                EndsWith(Str(file_path), ext_pattern)
         THEN FALSE
    ELSE TRUE

should_include_file(self, file_path) ==
    IF /\ self.gitspec # None
       /\ self.base_dir # None
       /\ match_file(self.gitspec, MatchKey(self, file_path))
    THEN FALSE
    ELSE IF LStripDot(Suffix(file_path)) \notin self.extensions THEN FALSE
    ELSE IF \E pattern \in self.exclude_patterns : Contains(Str(file_path), pattern)
         THEN FALSE
    ELSE IF \E ext_pattern \in self.exclude_extensions :
                EndsWith(Str(file_path), ext_pattern)
         THEN FALSE
    ELSE TRUE

(***************************************************************************)
(* The file system.  The scan root is /r; every entry is named by its      *)
(* parts below the root.  The directory tree on disk is a parent-closed    *)
(* set of entries of the universe below.                                   *)
(***************************************************************************)
a_py == <<"a", ".", "p", "y">>
b_py == <<"b", ".", "p", "y">>
c_py == <<"c", ".", "p", "y">>
i_py == <<"i", ".", "p", "y">>
s_py == <<"s", ".", "p", "y">>
n_t == <<"n", ".", "t">>
dot_x_py == <<".", "x", ".", "p", "y">>
dot_py == <<".", "p", "y">>
s == <<"s">>
dot_h == <<".", "h">>
e == <<"e">>
d == <<"d">>
r == <<"r">>
m == <<"m">>

AbsRoot == <<Slash, r>>

Directories == {<<s>>, <<dot_h>>, <<e>>, <<e, d>>}

\* The bytes of each regular file: x and y stand for ordinary characters,
\* CR and LF for the two line-end bytes, BAD for a byte that is not UTF-8.
Bytes(rel) ==
    CASE rel = <<a_py>> -> <<"x", "CR", "LF", "y", "CR">>
      [] rel = <<b_py>> -> <<"x", "BAD">>
      [] rel = <<s_py>> -> <<"x", "LF">>
      [] rel = <<dot_x_py>> -> <<"x">>
      [] rel = <<s, c_py>> -> <<"y">>
      [] rel = <<s, i_py>> -> <<>>
      [] rel = <<dot_h, a_py>> -> <<"y", "LF">>
      [] rel = <<e, d, n_t>> -> <<"x">>

RegularFiles == {<<a_py>>, <<b_py>>, <<s_py>>, <<dot_x_py>>, <<s, c_py>>, <<s, i_py>>,
                 <<dot_h, a_py>>, <<e, d, n_t>>}

Universe == Directories \cup RegularFiles

Parent(rel) == SubSeq(rel, 1, Len(rel) - 1)
ParentClosed(tree) == \A rel \in tree : Len(rel) > 1 => Parent(rel) \in tree

\* The entry a path names, when the path lies below the scan root
UnderRoot(path) == IsRelativeTo(Resolve(path), AbsRoot)
Rel(path) == RelativeTo(Resolve(path), AbsRoot)

\* Path.exists, Path.is_dir, Path.is_file
exists(path) == UnderRoot(path) /\ (Rel(path) = <<>> \/ Rel(path) \in fs)
is_dir(path) ==
    UnderRoot(path) /\ (Rel(path) = <<>> \/ Rel(path) \in fs \cap Directories)
is_file(path) == UnderRoot(path) /\ Rel(path) \in fs \cap RegularFiles

\* The entries of a directory, as Path objects built on the directory's path
Children(path) ==
    IF ~is_dir(path) THEN {}
    ELSE {path \o <<rel[Len(rel)]>> : rel \in {x \in fs : Parent(x) = Rel(path)}}

CanList(path) == Rel(path) \notin unlistable

\* open(file_path, 'r', encoding='utf-8').read(): the bytes must decode, and
\* text mode turns every CR LF and every lone CR into LF.
RECURSIVE TranslateNewlines(_)
TranslateNewlines(bytes) ==
    IF bytes = <<>> THEN <<>>
    ELSE IF Head(bytes) = "CR"
         THEN IF Len(bytes) >= 2 /\ bytes[2] = "LF"
              THEN <<"LF">> \o TranslateNewlines(SubSeq(bytes, 3, Len(bytes)))
              ELSE <<"LF">> \o TranslateNewlines(Tail(bytes))
    ELSE <<Head(bytes)>> \o TranslateNewlines(Tail(bytes))

Decodes(bytes) == \A k \in 1..Len(bytes) : bytes[k] # "BAD"
CanRead(path) == Decodes(Bytes(Rel(path)))

\* A read that hands back the bytes as they are on disk
read_binary(path) == Bytes(Rel(path))

read(path) == TranslateNewlines(Bytes(Rel(path)))

(***************************************************************************)
(* sorted(): insertion of each element in turn into a sorted list.         *)
(***************************************************************************)
RECURSIVE Insert(_, _)
Insert(p, sortedSeq) ==
    IF sortedSeq = <<>> THEN <<p>>
    ELSE IF PathLess(p, Head(sortedSeq)) THEN <<p>> \o sortedSeq
    ELSE <<Head(sortedSeq)>> \o Insert(p, Tail(sortedSeq))

\* A sort that leaves the list as it came
sorted_not(paths) == paths

RECURSIVE sorted(_)
sorted(paths) ==
    IF paths = <<>> THEN <<>> ELSE Insert(Head(paths), sorted(Tail(paths)))

\* The orders in which a directory listing may come back
RECURSIVE Enumerations(_)
Enumerations(S) ==
    IF S = {} THEN {<<>>}
    ELSE UNION {{<<x>> \o rest : rest \in Enumerations(S \ {x})} : x \in S}

\* One listing order, where the order cannot matter (the list is sorted next)
RECURSIVE AnyEnumeration(_)
AnyEnumeration(S) ==
    IF S = {} THEN <<>>
    ELSE LET x == CHOOSE y \in S : TRUE IN <<x>> \o AnyEnumeration(S \ {x})

(***************************************************************************)
(* CodeScanner.generate_structure.  The result is the list `structure` of  *)
(* the code, one record per line: indent is the depth, text the escaped    *)
(* name, dir tells the two line formats apart; item is the entry the line  *)
(* was printed for.  '\n'.join(structure) is empty exactly when the list   *)
(* is, since no line is empty.                                             *)
(***************************************************************************)
\* name.replace('*', '\\*').replace('_', '\\_')
RECURSIVE safe_name(_)
safe_name(name) ==
    IF name = <<>> THEN <<>>
    ELSE IF Head(name) \in {"*", "_"}
         THEN <<"\\", Head(name)>> \o safe_name(Tail(name))
    ELSE <<Head(name)>> \o safe_name(Tail(name))

StructureLine(item, depth, dir) ==
    [indent |-> depth, text |-> safe_name(Name(item)), dir |-> dir, item |-> item]

\* A tree walker that does not pass over hidden entries
TreeSkips_no_hidden(self, item) ==
    self.gitspec # None /\ match_file(self.gitspec, MatchKey(self, item))

\* lines 83-93: the entries the tree walker passes over
TreeSkips(self, item) ==
    \/ StartsWith(Name(item), <<".">>)
    \/ self.gitspec # None /\ match_file(self.gitspec, MatchKey(self, item))

\* A walker that prints a directory whatever lies beneath it
DirectoryEntry_always(item, depth, substructure) ==
    <<StructureLine(item, depth, TRUE)>> \o substructure

\* lines 99-102: a directory is printed, with its sub-listing, only when
\* the sub-listing is not empty
DirectoryEntry(item, depth, substructure) ==
    IF substructure # <<>>
    THEN <<StructureLine(item, depth, TRUE)>> \o substructure
    ELSE <<>>

RECURSIVE generate_structure(_, _, _)
RECURSIVE StructureOfItems(_, _, _)
generate_structure(self, path, depth) ==
    IF ~CanList(path) THEN <<>>                       \* except PermissionError: pass
    ELSE StructureOfItems(self, sorted(AnyEnumeration(Children(path))), depth)

\* the loop over items
StructureOfItems(self, items, depth) ==
    IF items = <<>> THEN <<>>
    ELSE LET item == Head(items)
             rest == StructureOfItems(self, Tail(items), depth)
         IN  IF TreeSkips(self, item) THEN rest
             ELSE IF is_dir(item)
                  THEN DirectoryEntry(item, depth,
                                      generate_structure(self, item, depth + 1))
                           \o rest
             ELSE IF should_include_file(self, item)
                  THEN <<StructureLine(item, depth, FALSE)>> \o rest
             ELSE rest

\* The directories generate_structure lists (or tries to list)
RECURSIVE StructureListed(_, _)
StructureListed(self, path) ==
    {path} \cup
    IF ~CanList(path) THEN {}
    ELSE UNION {StructureListed(self, item) :
                   item \in {c \in Children(path) : ~TreeSkips(self, c) /\ is_dir(c)}}

(***************************************************************************)
(* CodeScanner.scan_directory                                              *)
(***************************************************************************)
\* directory_path.rglob("*"): every entry below the directory; a directory
\* that cannot be listed yields nothing
RECURSIVE rglob(_)
rglob(path) ==
    IF ~CanList(path) THEN {}
    ELSE Children(path) \cup
         UNION {rglob(c) : c \in {x \in Children(path) : is_dir(x)}}

\* directory_path.glob("*")
glob(path) == IF ~CanList(path) THEN {} ELSE Children(path)

\* The directories the glob lists
GlobListed(path, recursive) ==
    {path} \cup IF recursive THEN {x \in rglob(path) : is_dir(x)} ELSE {}

\* lines 139-154 for the sorted code_files: one block per file that reads
ContentBlock(directory_path, file_path) ==
    [heading |-> Str(RelativeTo(file_path, directory_path)),
     lang |-> LStripDot(Suffix(file_path)),
     content |-> read(file_path),
     file |-> file_path]

\* A loop that a failing read ends
RECURSIVE ContentBlocks_abort(_, _)
ContentBlocks_abort(directory_path, code_files) ==
    IF code_files = <<>> \/ ~CanRead(Head(code_files)) THEN <<>>
    ELSE <<ContentBlock(directory_path, Head(code_files))>>
             \o ContentBlocks_abort(directory_path, Tail(code_files))

RECURSIVE ContentBlocks(_, _)
ContentBlocks(directory_path, code_files) ==
    IF code_files = <<>> THEN <<>>
    ELSE (IF CanRead(Head(code_files))
          THEN <<ContentBlock(directory_path, Head(code_files))>>
          ELSE <<>>) \o ContentBlocks(directory_path, Tail(code_files))

\* The record of a call that has not happened
NoCall == [op |-> "none"]

\* Lines 117-133 of a scan of an existing directory, up to the glob: the
\* scanner with its base_dir set, the structure section, the entries the
\* glob returns, those of them that pass the filter of lines 134-137, and
\* the directories listed on the way.
ScanSetup(directory_path, recursive) ==
    LET self == [Self EXCEPT !.base_dir = Resolve(directory_path)]
        listing == IF recursive THEN rglob(directory_path) ELSE glob(directory_path)
    IN  [self |-> self,
         structure |-> IF self.no_structure THEN <<>>
                       ELSE generate_structure(self, directory_path, 0),
         listing |-> listing,
         passing |-> {f \in listing : is_file(f) /\ should_include_file(self, f)},
         listed |-> (IF self.no_structure THEN {}
                     ELSE StructureListed(self, directory_path))
                    \cup GlobListed(directory_path, recursive)]

\* The record of a scan that raised before doing anything
Raised(directory_path, recursive) ==
    [op |-> "scan_directory", directory |-> directory_path,
     recursive |-> recursive, raised |-> "ValueError",
     listed |-> {}, opened |-> <<>>, errors |-> <<>>,
     structure |-> <<>>, blocks |-> <<>>]

\* A scan that records the root before it looks whether the root exists
DirectoryMissing_late(directory_path, recursive) ==
    /\ base_dir' = Resolve(directory_path)
    /\ call' = Raised(directory_path, recursive)

\* lines 114-115: raise ValueError; nothing was assigned, listed or read
DirectoryMissing(directory_path, recursive) ==
    /\ call' = Raised(directory_path, recursive)
    /\ UNCHANGED base_dir

\* scan_directory(directory, recursive).  `files` is the list the glob
\* returned, in whichever order the file system enumerated the entries.
scan_directory(directory_path, recursive) ==
    IF ~exists(directory_path)
    THEN DirectoryMissing(directory_path, recursive)
    ELSE \E setup \in {ScanSetup(directory_path, recursive)} :
         \E files \in Enumerations(setup.listing) :
            LET code_files == sorted(SelectSeq(files, LAMBDA f : f \in setup.passing))
            IN  /\ base_dir' = setup.self.base_dir
                /\ call' = [op |-> "scan_directory", directory |-> directory_path,
                            recursive |-> recursive, raised |-> "no",
                            listed |-> setup.listed,
                            opened |-> code_files,
                            errors |-> SelectSeq(code_files, LAMBDA f : ~CanRead(f)),
                            structure |-> setup.structure,
                            blocks |-> ContentBlocks(directory_path, code_files)]

\* The caller, as the main block (lines 206-222): a scanner completes at
\* most one scan, of a directory named by an absolute or a relative path;
\* after a scan that raised, it may be asked again.
ScanDirectory ==
    \E directory \in {AbsRoot, <<r>>, <<m>>}, recursive \in BOOLEAN :
        /\ base_dir = None
        /\ scan_directory(directory, recursive)
        /\ UNCHANGED <<extensions, exclude_patterns, exclude_extensions,
                       no_structure, gitspec, fs, unlistable, lines>>

(***************************************************************************)
(* Construction: CodeScanner.__init__ and load_gitignore.                  *)
(***************************************************************************)
DefaultExtensions ==
    {<<"p", "y">>, <<"j", "a", "v", "a">>, <<"j", "s">>, <<"c", "p", "p">>,
     <<"c">>, <<"h">>, <<"h", "p", "p">>}

\* load_gitignore, given the lines read from the ignore files: the matcher
\* is built only when at least one line was read
load_gitignore(patterns) == IF patterns # <<>> THEN from_lines(patterns) ELSE None

\* x or default, for a set argument
Or(x, default) == IF x # {} THEN x ELSE default

\* __init__: patterns are the lines of the ignore files that could be read
\* (none when there is no ignore file)
init(ext, excl_patterns, excl_extensions, patterns, ignore_gitignore) ==
    /\ extensions = Or(ext, DefaultExtensions)
    /\ exclude_patterns = Or(excl_patterns, {})
    /\ exclude_extensions = Or(excl_extensions, {})
    /\ no_structure = FALSE
    /\ base_dir = None
    /\ lines = IF ignore_gitignore THEN <<>> ELSE patterns
    /\ gitspec = IF ignore_gitignore THEN None ELSE load_gitignore(patterns)

(***************************************************************************)
(* Bounds and inputs.                                                      *)
(***************************************************************************)
MaxRules == 3       \* lines of ignore rules, in the matcher's specification
MaxEntries == 3     \* entries of the directory tree

star_py == <<"*", ".", "p", "y">>
not_i_py == <<"!", "i", ".", "p", "y">>
s_slash == <<"s", "/">>
slash_a_py == <<"/", "a", ".", "p", "y">>
comment == <<"#", "s">>

RuleLines == {star_py, not_i_py, s_slash, slash_a_py, comment, <<>>}
not_c_py == <<"!", "c", ".", "p", "y">>

\* The ignore files of the scans
ScanPatterns == {<<>>, <<s_slash>>, <<star_py, not_i_py>>, <<s, not_c_py>>}

SeqsUpTo(S, n) == UNION {[1..k -> S] : k \in 0..n}

\* The constructor's extensions, exclude_patterns and exclude_extensions
ScanArgs == {<<{}, {}, {}>>, <<{<<"t">>}, {}, {}>>, <<{}, {<<"c">>}, {i_py}>>}

Trees == {tree \in SUBSET Universe : Cardinality(tree) <= MaxEntries /\ ParentClosed(tree)}

(***************************************************************************)
(* The scan: a scanner is constructed over some directory tree, then       *)
(* scan_directory is called on it.                                         *)
(***************************************************************************)
Init ==
    /\ \E args \in ScanArgs, patterns \in ScanPatterns, ignore_gitignore \in BOOLEAN :
            init(args[1], args[2], args[3], patterns, ignore_gitignore)
    /\ fs \in Trees
    /\ unlistable \in {{}} \cup {{x} : x \in fs \cap Directories}
    /\ call = NoCall

Next == ScanDirectory

Spec == Init /\ [][Next]_vars

(***************************************************************************)
(* The filter: a scanner is constructed, and should_include_file and the   *)
(* matcher are asked about paths, before and after a scan has set the      *)
(* scan root.                                                              *)
(***************************************************************************)
QueryPaths ==
    {AbsRoot \o <<a_py>>, AbsRoot \o <<i_py>>, AbsRoot \o <<dot_py>>,
     AbsRoot \o <<s, i_py>>, AbsRoot \o <<s, c_py>>, AbsRoot \o <<e, d, n_t>>,
     <<r, a_py>>, <<r, s, i_py>>}

QueryFiles == {a_py, i_py, s, s_slash, s_slash \o i_py, s_slash \o c_py}

InitFilter ==
    /\ \E args \in ScanArgs, patterns \in SeqsUpTo(RuleLines, MaxRules),
          ignore_gitignore \in BOOLEAN :
            init(args[1], args[2], args[3], patterns, ignore_gitignore)
    /\ fs = {}
    /\ unlistable = {}
    /\ call = NoCall

ShouldIncludeFile ==
    \E file_path \in QueryPaths :
        /\ call' = [op |-> "should_include_file", file_path |-> file_path,
                    returned |-> should_include_file(Self, file_path)]
        /\ UNCHANGED <<extensions, exclude_patterns, exclude_extensions,
                       no_structure, gitspec, base_dir, fs, unlistable, lines>>

MatchFile ==
    \E file \in QueryFiles :
        /\ gitspec # None
        /\ call' = [op |-> "match_file", file |-> file,
                    returned |-> match_file(gitspec, file)]
        /\ UNCHANGED <<extensions, exclude_patterns, exclude_extensions,
                       no_structure, gitspec, base_dir, fs, unlistable, lines>>

NextFilter == ShouldIncludeFile \/ MatchFile \/ ScanDirectory

SpecFilter == InitFilter /\ [][NextFilter]_vars

(***************************************************************************)
(* Properties of the filter and of the matcher (SpecFilter).               *)
(***************************************************************************)
Max(S) == CHOOSE x \in S : \A y \in S : y <= x

\* The text after the last '.' of a name (empty when the name has no dot)
TextAfterLastDot(name) ==
    LET dots == {k \in 1..Len(name) : name[k] = "."}
    IN  IF dots = {} THEN <<>> ELSE SubSeq(name, Max(dots) + 1, Len(name))

\* The extension pathlib gives a name: the text after its last dot, when
\* that dot is neither the first nor the last character; else empty
InnerExtension(name) ==
    IF \E k \in 2..(Len(name) - 1) :
           name[k] = "." /\ \A j \in (k + 1)..Len(name) : name[j] # "."
    THEN TextAfterLastDot(name)
    ELSE <<>>

NoExcludedSubstring(path) ==
    \A pattern \in exclude_patterns :
        \A k \in 1..Len(Str(path)) :
            SubSeq(Str(path), k, k + Len(pattern) - 1) # pattern

NoExcludedEnding(path) ==
    \A ending \in exclude_extensions :
        \/ Len(ending) > Len(Str(path))
        \/ \E k \in 1..Len(ending) :
              ending[k] # Str(path)[Len(Str(path)) - Len(ending) + k]

\* The path relative to the scan root /r, as a string
RelativeToRoot(path) == Str(Rel(path))

\* The four conditions as the claim words them
ClaimedInclude(path) ==
    /\ gitspec = None \/ ~match_file(gitspec, RelativeToRoot(path))
    /\ TextAfterLastDot(Name(path)) \in extensions
    /\ NoExcludedSubstring(path)
    /\ NoExcludedEnding(path)

\* The string about which the matcher is asked, once a scan root is recorded
AskedAbout(path) ==
    IF Len(path) >= Len(base_dir) /\ \A k \in 1..Len(base_dir) : path[k] = base_dir[k]
    THEN Str([k \in 1..(Len(path) - Len(base_dir)) |-> path[Len(base_dir) + k]])
    ELSE Str(path)

\* The four conditions as the code applies them
AmendedInclude(path) ==
    /\ \/ gitspec = None
       \/ base_dir = None
       \/ ~match_file(gitspec, AskedAbout(path))
    /\ InnerExtension(Name(path)) \in extensions
    /\ NoExcludedSubstring(path)
    /\ NoExcludedEnding(path)

\* C1, as claimed: should_include_file returns true exactly when the matcher
\* (if configured) does not match the path relative to the scan root, the
\* text after the last '.' of the name is an allowed extension, no
\* exclude-substring occurs in the path and the path ends with no
\* exclude-extension.
C1_AsClaimed ==
    call.op = "should_include_file" =>
        (call.returned <=> ClaimedInclude(call.file_path))

\* C1, amended: should_include_file returns true exactly when (1) no matcher
\* is configured, or no scan root is recorded yet, or the matcher does not
\* match the path relative to the recorded root (the path as given when it
\* is not under that root), (2) pathlib's suffix of the name, without its
\* dot, is an allowed extension, (3) no exclude-substring occurs in the path
\* string and (4) the path string ends with no exclude-extension.
C1_ShouldInclude ==
    call.op = "should_include_file" =>
        (call.returned <=> AmendedInclude(call.file_path))

\* C1 witness: with a matcher, a scan root and an exclude-substring
\* configured, should_include_file accepted a path
C1_Witness ==
    /\ call.op = "should_include_file"
    /\ gitspec # None
    /\ base_dir # None
    /\ exclude_patterns # {}
    /\ \E k \in 1..Len(lines) : lines[k] # <<>> /\ Head(lines[k]) \notin {"#", "!"}
    /\ call.returned

\* A line that yields a pattern: not empty, not a comment
IsRuleLine(line) == line # <<>> /\ Head(line) # "#"
IsNegation(line) == IsRuleLine(line) /\ Head(line) = "!"
LineMatches(line, file) ==
    IsRuleLine(line) /\ PatternMatches(pattern_to_regex(line), normalize_file(file))
MatchingLines(file) == {k \in 1..Len(lines) : LineMatches(lines[k], file)}

\* The verdict of the last line that matches; not ignored when none does
LastVerdict(file) ==
    IF MatchingLines(file) = {} THEN FALSE
    ELSE ~IsNegation(lines[Max(MatchingLines(file))])

\* C3: the matcher's verdict on a path is the verdict of the last rule, in
\* declaration order, that matches it; a path no rule matches is not
\* ignored; empty lines and lines starting with '#' contribute no rule (the
\* verdict is that of the matcher built from the other lines alone).
C3_LastMatchWins ==
    call.op = "match_file" =>
        /\ call.returned = LastVerdict(call.file)
        /\ call.returned =
              check_match_file(from_lines(SelectSeq(lines, IsRuleLine))[1],
                               normalize_file(call.file), FALSE)

\* C3 witness: the matcher was asked about a path that an exclusion line
\* and, after it, a negation line both match
C3_Witness ==
    /\ call.op = "match_file"
    /\ \E j, k \in MatchingLines(call.file) :
          j < k /\ ~IsNegation(lines[j]) /\ IsNegation(lines[k])
    /\ \E k \in 1..Len(lines) : ~IsRuleLine(lines[k])

\* The directories above a file string, each in the form the matcher is
\* given a directory in (with its trailing slash)
AncestorDirs(file) ==
    LET parts == Split(file, "/")
    IN  {Join(SubSeq(parts, 1, k), Slash) \o Slash : k \in 1..(Len(parts) - 1)}

\* A path some exclusion line matches and whose last matching line is a
\* negation line after it
ExcludedThenNegated(file) ==
    /\ MatchingLines(file) # {}
    /\ IsNegation(lines[Max(MatchingLines(file))])
    /\ \E k \in MatchingLines(file) : ~IsNegation(lines[k])

\* C2: a path excluded by a rule and later matched by a negation rule is
\* reported as not ignored if and only if no ancestor directory of the path
\* is itself excluded by the rule set.
C2_NegationUnlessAncestorExcluded ==
    (call.op = "match_file" /\ ExcludedThenNegated(call.file)) =>
        (~call.returned <=>
            \A dir \in AncestorDirs(call.file) : ~match_file(gitspec, dir))

(***************************************************************************)
(* Properties of a scan (Spec).                                            *)
(***************************************************************************)
ScanOk == call.op = "scan_directory" /\ call.raised = "no"

\* The entry `rel` as the scan names it: on the directory path it was given
At(rel) == call.directory \o rel

Range(f) == {f[k] : k \in DOMAIN f}
TreeItems == {line.item : line \in Range(call.structure)}
TreeFileItems == {line.item : line \in {l \in Range(call.structure) : ~l.dir}}
BlockFiles == {block.file : block \in Range(call.blocks)}
BlocksOf(path) == {k \in DOMAIN call.blocks : call.blocks[k].file = path}

\* An entry that is hidden, or lies beneath a hidden directory
IsHidden(rel) == \E k \in 1..Len(rel) : rel[k][1] = "."

\* The files the glob of the call enumerates: with recursive, those with no
\* unlistable directory above them; without, those directly in the root
Enumerated(rel) ==
    IF call.recursive
    THEN \A k \in 1..(Len(rel) - 1) : SubSeq(rel, 1, k) \notin unlistable
    ELSE Len(rel) = 1

\* The files the filter lets through among those the glob enumerates
Selected ==
    {At(rel) : rel \in {x \in fs \cap RegularFiles :
                          Enumerated(x) /\ should_include_file(Self, At(x))}}

\* C4: a directory line appears in the tree only if a file beneath that
\* directory is itself printed (after it, as its sub-listing); a directory
\* beneath which no file is printed has no line, at any depth.
C4_NoEmptyDirectoryNode ==
    ScanOk =>
        /\ \A k \in DOMAIN call.structure :
              call.structure[k].dir =>
                  \E j \in DOMAIN call.structure :
                      /\ j > k
                      /\ ~call.structure[j].dir
                      /\ IsRelativeTo(call.structure[j].item, call.structure[k].item)
        /\ \A dir \in fs \cap Directories :
              (\A f \in TreeFileItems : ~IsRelativeTo(f, At(dir))) => At(dir) \notin TreeItems

\* C4 witness: a scan of a tree with a directory holding only an empty
\* directory, next to a file that is printed: the tree is that file alone
C4_Witness ==
    /\ ScanOk
    /\ <<e, d>> \in fs
    /\ Len(call.structure) = 1
    /\ ~call.structure[1].dir

\* C5, as claimed: when the read of an included file fails, the tree section
\* and the content blocks both show exactly the files that were read.
C5_AsClaimed ==
    (ScanOk /\ call.errors # <<>>) =>
        /\ BlockFiles = {f \in Selected : CanRead(f)}
        /\ TreeFileItems = BlockFiles

\* C5, amended: when the read of an included file fails, the scan still
\* returns a document whose content blocks are exactly those of the included
\* files that were read, a warning being given for each of the others; the
\* tree section is rendered before any read and still lists the failed file
\* (one in the root that is not hidden, at least).
C5_ReadFailureIsolated ==
    ScanOk =>
        /\ BlockFiles = {f \in Selected : CanRead(f)}
        /\ Range(call.errors) = {f \in Selected : ~CanRead(f)}
        /\ \A f \in Range(call.errors) :
              (Len(Rel(f)) = 1 /\ ~IsHidden(Rel(f))) => f \in TreeFileItems

\* C5 witness: a scan in which one included file could not be read and
\* another was
C5_Witness == ScanOk /\ call.errors # <<>> /\ call.blocks # <<>>

\* C6: in one scan, with either value of the recursive flag, a file with no
\* hidden component is listed in the tree if and only if it is selected for
\* the content; with the rule 's/', s/c.py is in neither.
C6_TreeMatchesContent ==
    ScanOk =>
      /\ (lines = <<s_slash>> /\ gitspec # None) =>
            At(<<s, c_py>>) \notin TreeItems \cup Range(call.opened)
      /\ \A rel \in fs \cap RegularFiles :
            ~IsHidden(rel) =>
                (At(rel) \in TreeFileItems <=> At(rel) \in Range(call.opened))

\* No ignore rule matches the string the matcher is asked about
NoRuleMatches(path) == gitspec = None \/ MatchingLines(AskedAbout(path)) = {}

\* A regular file the claim is about: allowed extension, no exclusion, no
\* ignore rule, readable
Eligible(rel) ==
    /\ InnerExtension(rel[Len(rel)]) \in extensions
    /\ NoExcludedSubstring(At(rel))
    /\ NoExcludedEnding(At(rel))
    /\ NoRuleMatches(At(rel))
    /\ Decodes(Bytes(rel))

\* text is bytes read in text mode: every LF that follows a CR is dropped,
\* and every CR becomes LF
UniversalNewlines(bytes, text) ==
    LET kept == {k \in 1..Len(bytes) : ~(bytes[k] = "LF" /\ k > 1 /\ bytes[k - 1] = "CR")}
        Nth(n) == CHOOSE k \in kept : Cardinality({j \in kept : j < k}) = n - 1
    IN  /\ Len(text) = Cardinality(kept)
        /\ \A n \in 1..Len(text) :
              text[n] = IF bytes[Nth(n)] = "CR" THEN "LF" ELSE bytes[Nth(n)]

C8_AsClaimed ==
    ScanOk =>
        \A j, k \in DOMAIN call.blocks :
            j < k => StrLess(call.blocks[j].heading, call.blocks[k].heading)

\* C8, amended: the blocks are in ascending order of the relative path
\* compared part by part, each part as a string (the order of Path
\* objects), whatever the order in which the entries were enumerated.
C8_SortedByParts ==
    ScanOk =>
        \A j, k \in DOMAIN call.blocks :
            j < k => PathLess(Split(call.blocks[j].heading, "/"),
                              Split(call.blocks[k].heading, "/"))

\* C8 witness: a scan gave the blocks of a file in a directory and of a
\* file beside that directory, which the two orders place differently
C8_Witness ==
    /\ ScanOk
    /\ \E j, k \in DOMAIN call.blocks :
          j < k /\ StrLess(call.blocks[k].heading, call.blocks[j].heading)

\* C9, as claimed: no hidden entry, and nothing beneath a hidden directory,
\* is in the tree; a hidden file, or a file beneath a hidden directory, has
\* a content block whenever should_include_file accepts it.
C9_AsClaimed ==
    ScanOk =>
        /\ \A rel \in fs : IsHidden(rel) => At(rel) \notin TreeItems
        /\ \A rel \in fs \cap RegularFiles :
              (IsHidden(rel) /\ should_include_file(Self, At(rel)))
                  => At(rel) \in BlockFiles

\* C9, amended: no hidden entry, and nothing beneath a hidden directory, is
\* in the tree; a hidden file, or a file beneath a hidden directory, has a
\* content block whenever the glob enumerates it (always in a recursive
\* scan, only in the root otherwise), should_include_file accepts it and it
\* can be read.
C9_HiddenAsymmetry ==
    ScanOk =>
        /\ \A rel \in fs : IsHidden(rel) => At(rel) \notin TreeItems
        /\ \A rel \in fs \cap RegularFiles :
              (/\ IsHidden(rel)
               /\ Enumerated(rel)
               /\ should_include_file(Self, At(rel))
               /\ Decodes(Bytes(rel)))
                  => At(rel) \in BlockFiles

\* C9 witness: a scan gave a block for a file beneath a hidden directory
\* and for a hidden file, neither of them in the tree
C9_Witness ==
    /\ ScanOk
    /\ At(<<dot_h, a_py>>) \in BlockFiles \ TreeItems
    /\ At(<<dot_x_py>>) \in BlockFiles \ TreeItems

\* C10: a scan of a directory that does not exist raises before anything
\* else: no directory is listed, no file is opened, nothing is put out, and
\* the scanner, its recorded scan root included, is as it was.
C10_MissingRootFailsFirst ==
    [][(call'.op = "scan_directory" /\ call' # call) =>
          /\ (call'.raised = "ValueError") <=> ~exists(call'.directory)
          /\ call'.raised = "ValueError" =>
                /\ call'.listed = {}
                /\ call'.opened = <<>>
                /\ call'.structure = <<>>
                /\ call'.blocks = <<>>
                /\ UNCHANGED <<base_dir, gitspec, extensions, exclude_patterns,
                               exclude_extensions, no_structure>>]_vars

\* C10 witness: a scan of a missing directory raised, over a tree that is
\* not empty and a scanner with a matcher
C10_Witness ==
    /\ call.op = "scan_directory"
    /\ call.raised = "ValueError"
    /\ fs # {}
    /\ gitspec # None

====
